---- MODULE Spec2Model ----
(***************************************************************************)
(* A model of tenacity.py: the Retrying controller's call() loop with its  *)
(* stop, wait and reject strategies, the Attempt record and RetryError.    *)
(*                                                                         *)
(* One call() is a sequential process; pc is its position in the loop of   *)
(* Retrying.call.  The wrapped operation, the clock, the random source and *)
(* the sleep primitive are the environment: the operation's outcome and    *)
(* duration and the random draws are chosen nondeterministically.          *)
(***************************************************************************)
EXTENDS Integers, Sequences, FiniteSets, TLC

VARIABLES
    cfg,                            \* the Retrying object's fields (set by __init__)
    pc,                             \* position of call() in its loop
    now,                            \* the clock, int(round(time.time() * 1000))
    start_time,                     \* call(): start_time
    attempt_number,                 \* call(): attempt_number
    attempt,                        \* call(): attempt (the last Attempt built)
    delay_since_first_attempt_ms,   \* call(): delay_since_first_attempt_ms
    sleep,                          \* call(): sleep, in 1/RandomDen ms
    result,                         \* what call() handed to its caller
    invocations,                    \* history: number of times fn was invoked
    raised,                         \* history: invocations that raised
    rejections,                     \* history: attempts should_reject rejected
    before_log,                     \* history: arguments of before_attempts
    after_log,                      \* history: arguments of after_attempts
    stop_log,                       \* history: attempt numbers passed to self.stop
    wait_log,                       \* history: attempt numbers passed to self.wait
    stop_args,                      \* history: the last arguments of self.stop
    wait_args,                      \* history: the last arguments of self.wait
    wait_result,                    \* history: what self.wait last returned
    sleeps,                         \* history: number of delays slept
    other                           \* the locals of a second execution of call()

vars == <<cfg, pc, now, start_time, attempt_number, attempt,
          delay_since_first_attempt_ms, sleep, result, invocations, raised,
          rejections, before_log, after_log, stop_log, wait_log, stop_args,
          wait_args, wait_result, sleeps, other>>

\* The history of the calls of the stop and wait strategies and of time.sleep
strategy_history == <<stop_log, wait_log, stop_args, wait_args, wait_result, sleeps>>

-----------------------------------------------------------------------------
(* Bounds of the model *)

MaxStop == 3            \* stop_after_attempt(n), n in 1..MaxStop
MaxDelay == 2           \* stop_after_delay(d), d in 0..MaxDelay
MaxWait == 1            \* well-formed wait parameters are in 0..MaxWait
MaxMag == 2             \* any-integer wait parameters are in -MaxMag..MaxMag
MaxAttempts == 4        \* fn is invoked at most MaxAttempts times per call
MaxOpMs == 1            \* one invocation of fn takes 0..MaxOpMs ms
MaxJitter == 1          \* wait_jitter_max is None or in 1..MaxJitter
MaxExponent == 8        \* a wait strategy is evaluated at attempts 1..MaxExponent
RandomDen == 2          \* random.random() is q/RandomDen, q in 0..RandomDen-1

(* Program constants *)

EXP_BASE == 2

-----------------------------------------------------------------------------
(* The operation's possible outcomes: values it returns, errors it raises *)

Values == {"V", "NotReady"}
Errors == {"ErrorX", "ErrorY"}

\* Python's None as a strategy (stop=None, wait=None)
None == [kind |-> "None", a |-> 0, b |-> 0, c |-> 0]

\* Python's None as a predicate (retry_on_exception=None, retry_on_result=None)
NonePredicate == [kind |-> "None", set |-> {}]

Max(x, y) == IF x >= y THEN x ELSE y

RECURSIVE Pow(_, _)
Pow(base, n) == IF n <= 0 THEN 1 ELSE base * Pow(base, n - 1)

-----------------------------------------------------------------------------
(* Stop strategies: the constructor, then __call__ *)

stop_after_attempt(max_attempt_number) ==
    [kind |-> "stop_after_attempt", a |-> max_attempt_number, b |-> 0, c |-> 0]

\* Mutant: `>` for `>=`, one attempt too many
stop_after_attempt_call_gt(self, previous_attempt_number, delay_ms) ==
    previous_attempt_number > self.a

stop_after_attempt_call(self, previous_attempt_number, delay_ms) ==
    previous_attempt_number >= self.a

stop_after_delay(max_delay) ==
    [kind |-> "stop_after_delay", a |-> max_delay, b |-> 0, c |-> 0]

\* Mutant: the delay has to be exceeded
stop_after_delay_call_gt(self, previous_attempt_number, delay_ms) ==
    delay_ms > self.a

stop_after_delay_call(self, previous_attempt_number, delay_ms) ==
    delay_ms >= self.a

\* self.stop(attempt_number, delay_since_first_attempt_ms)
StopCall(self, previous_attempt_number, delay_ms) ==
    CASE self.kind = "stop_after_attempt" ->
            stop_after_attempt_call(self, previous_attempt_number, delay_ms)
      [] self.kind = "stop_after_delay" ->
            stop_after_delay_call(self, previous_attempt_number, delay_ms)

-----------------------------------------------------------------------------
(* Wait strategies: the constructor, then __call__.  A __call__ is the set  *)
(* of delays it can return: a singleton when it is deterministic, the      *)
(* range of random.randint for wait_random, and the empty set when         *)
(* random.randint raises ValueError (an empty range, min > max).           *)

wait_fixed(wait) == [kind |-> "wait_fixed", a |-> wait, b |-> 0, c |-> 0]

wait_fixed_call(self, previous_attempt_number, delay_ms) == {self.a}

\* wait_none is the subclass of wait_fixed whose __init__ passes 0
wait_none == [kind |-> "wait_none", a |-> 0, b |-> 0, c |-> 0]

wait_random(min, max) == [kind |-> "wait_random", a |-> min, b |-> max, c |-> 0]

wait_random_call(self, previous_attempt_number, delay_ms) == self.a .. self.b

wait_incrementing(start, increment, max) ==
    [kind |-> "wait_incrementing", a |-> start, b |-> increment, c |-> max]

\* Mutant: the two clamps in the other order
wait_incrementing_call_clamps_swapped(self, previous_attempt_number, delay_ms) ==
    LET result0 == self.a + (self.b * (previous_attempt_number - 1))
        result1 == IF result0 < 0 THEN 0 ELSE result0
        result2 == IF result1 > self.c THEN self.c ELSE result1
    IN  {result2}

wait_incrementing_call(self, previous_attempt_number, delay_ms) ==
    LET result0 == self.a + (self.b * (previous_attempt_number - 1))
        result1 == IF result0 > self.c THEN self.c ELSE result0
        result2 == IF result1 < 0 THEN 0 ELSE result1
    IN  {result2}

wait_exponential(multiplier, max) ==
    [kind |-> "wait_exponential", a |-> multiplier, b |-> max, c |-> 0]

\* Mutant: the result is capped at max and not raised to 0
wait_exponential_call_no_floor(self, previous_attempt_number, delay_ms) ==
    LET exp     == Pow(EXP_BASE, previous_attempt_number)
        result0 == self.a * exp
        result1 == IF result0 > self.b THEN self.b ELSE result0
    IN  {result1}

wait_exponential_call(self, previous_attempt_number, delay_ms) ==
    LET exp     == Pow(EXP_BASE, previous_attempt_number)
        result0 == self.a * exp
        result1 == IF result0 > self.b THEN self.b ELSE result0
        result2 == IF result1 < 0 THEN 0 ELSE result1
    IN  {result2}

\* self.wait(attempt_number, delay_since_first_attempt_ms)
WaitCall(self, previous_attempt_number, delay_ms) ==
    CASE self.kind \in {"wait_fixed", "wait_none"} ->
            wait_fixed_call(self, previous_attempt_number, delay_ms)
      [] self.kind = "wait_random" ->
            wait_random_call(self, previous_attempt_number, delay_ms)
      [] self.kind = "wait_incrementing" ->
            wait_incrementing_call(self, previous_attempt_number, delay_ms)
      [] self.kind = "wait_exponential" ->
            wait_exponential_call(self, previous_attempt_number, delay_ms)

-----------------------------------------------------------------------------
(* Reject strategy.  A predicate is a record: the module's own            *)
(* _always_reject and _never_reject, a caller's function "fn" (true        *)
(* exactly on the names in its set), a tuple of exception types, or the    *)
(* closure _retry_if_exception_of_type builds from such a tuple.           *)

_always_reject == [kind |-> "_always_reject", set |-> {}]

_never_reject == [kind |-> "_never_reject", set |-> {}]

Fn(S) == [kind |-> "fn", set |-> S]

Tuple(S) == [kind |-> "tuple", set |-> S]

_retry_if_exception_of_type(retryable_types) ==
    [kind |-> "_retry_if_exception_these_types", set |-> retryable_types.set]

\* predicate(x): the predicate applied to the value or exception named x
Apply(predicate, x) ==
    CASE predicate.kind = "_always_reject" -> TRUE
      [] predicate.kind = "_never_reject" -> FALSE
      [] predicate.kind = "fn" -> x \in predicate.set
      [] predicate.kind = "_retry_if_exception_these_types" -> x \in predicate.set

_MaybeReject(retry_on_exception, retry_on_result) ==
    [retry_on_exception |-> retry_on_exception,
     retry_on_result |-> retry_on_result]

_MaybeReject_call(self, att) ==
    IF att.has_exception
    THEN IF self.retry_on_exception # NonePredicate
         THEN FALSE \/ Apply(self.retry_on_exception, att.value.name)
         ELSE FALSE
    ELSE IF self.retry_on_result # NonePredicate
         THEN FALSE \/ Apply(self.retry_on_result, att.value.name)
         ELSE FALSE

_select_reject_strategy(retry_on_exception, retry_on_result) ==
    LET roe == IF retry_on_exception = NonePredicate
               THEN _always_reject
               ELSE IF retry_on_exception.kind = "tuple"
                    THEN _retry_if_exception_of_type(retry_on_exception)
                    ELSE retry_on_exception
        ror == IF retry_on_result = NonePredicate
               THEN _never_reject
               ELSE retry_on_result
    IN  _MaybeReject(roe, ror)

-----------------------------------------------------------------------------
(* Attempt and RetryError, and what call() hands to its caller *)

\* What fn returned or raised at invocation `at` (an exception keeps its identity)
Payload(name, at, from) == [name |-> name, at |-> at, from |-> from]

NoPayload == Payload("none", 0, "none")

Attempt(value, number, has_exception) ==
    [value |-> value, attempt_number |-> number, has_exception |-> has_exception]

NoAttempt == Attempt(NoPayload, 0, FALSE)

NoResult == [kind |-> "none", value |-> NoPayload, last_attempt |-> NoAttempt]

Return(value) == [kind |-> "return", value |-> value, last_attempt |-> NoAttempt]

Raise(error) == [kind |-> "raise", value |-> error, last_attempt |-> NoAttempt]

RetryError(last_attempt) ==
    [kind |-> "RetryError", value |-> NoPayload, last_attempt |-> last_attempt]

\* Mutant: wrap_exception tested before has_exception, so a value is wrapped too
Attempt_get_wrap_first(self, wrap_exception) ==
    IF wrap_exception
    THEN RetryError(self)
    ELSE IF self.has_exception THEN Raise(self.value) ELSE Return(self.value)

\* Mutant: wrap_exception ignored
Attempt_get_never_wraps(self, wrap_exception) ==
    IF self.has_exception THEN Raise(self.value) ELSE Return(self.value)

\* Attempt.get(wrap_exception)
Attempt_get(self, wrap_exception) ==
    IF self.has_exception
    THEN IF wrap_exception THEN RetryError(self) ELSE Raise(self.value)
    ELSE Return(self.value)

-----------------------------------------------------------------------------
(* Retrying.__init__: the controller's fields.  wait_jitter_max is an      *)
(* integer, 0 standing for None (both are false in `if`).  A hook is       *)
(* "None", "hook", a callable that records its argument and returns, or    *)
(* "raising", a callable that records its argument and raises.             *)

Retrying(stop, wait, retry_on_exception, retry_on_result, wrap_exception, wait_jitter_max, before_attempts, after_attempts) ==
    [stop |-> stop,
     wait |-> wait,
     should_reject |-> _select_reject_strategy(retry_on_exception, retry_on_result),
     _wrap_exception |-> wrap_exception,
     _before_attempts |-> before_attempts,
     _after_attempts |-> after_attempts,
     _wait_jitter_max |-> wait_jitter_max]

-----------------------------------------------------------------------------
(* Retrying.call, one action per step of its loop *)

Terminal == {"ACCEPTED", "GIVING_UP", "ERROR"}

\* Mutant: the hook is handed a 0-based attempt number
HookCall_zero_based(hook, log, number) ==
    IF hook # "None" THEN Append(log, number - 1) ELSE log

\* Mutant: the hook is called for the first attempt only
HookCall_first_only(hook, log, number) ==
    IF hook # "None" /\ number = 1 THEN Append(log, number) ELSE log

\* if hook: hook(attempt_number), as the log of the hook's arguments
HookCall(hook, log, number) ==
    IF hook # "None" THEN Append(log, number) ELSE log

\* What call() raises when a hook raises: the hook's own exception
HookError(number, hook_name) == Raise(Payload("HookError", number, hook_name))

\* call(): start_time = int(round(time.time() * 1000)); attempt_number = 1
Call ==
    /\ pc = "idle"
    /\ start_time' = now
    /\ attempt_number' = 1
    /\ pc' = "before"
    /\ UNCHANGED <<cfg, now, attempt, delay_since_first_attempt_ms, sleep,
                   result, invocations, raised, rejections, before_log, after_log>>
    /\ UNCHANGED <<strategy_history, other>>

\* if self._before_attempts: self._before_attempts(attempt_number)
BeforeAttempt ==
    /\ pc = "before"
    /\ invocations < MaxAttempts
    /\ before_log' = HookCall(cfg._before_attempts, before_log, attempt_number)
    /\ IF cfg._before_attempts = "raising"
       THEN /\ result' = HookError(attempt_number, "before_attempts")
            /\ pc' = "ERROR"
       ELSE /\ pc' = "invoke"
            /\ UNCHANGED result
    /\ UNCHANGED <<cfg, now, start_time, attempt_number, attempt,
                   delay_since_first_attempt_ms, sleep, invocations,
                   raised, rejections, after_log>>
    /\ UNCHANGED <<strategy_history, other>>

\* try: attempt = Attempt(fn(*args, **kwargs), attempt_number, False)
\* except Exception: attempt = Attempt(sys.exc_info(), attempt_number, True)
Invoke ==
    /\ pc = "invoke"
    /\ \E name \in Values \cup Errors, ms \in 0 .. MaxOpMs :
          /\ attempt' = Attempt(Payload(name, invocations + 1, "fn"),
                                attempt_number, name \in Errors)
          /\ raised' = IF name \in Errors THEN raised + 1 ELSE raised
          /\ now' = now + ms
    /\ invocations' = invocations + 1
    /\ pc' = "reject"
    /\ UNCHANGED <<cfg, start_time, attempt_number, delay_since_first_attempt_ms,
                   sleep, result, rejections, before_log, after_log>>
    /\ UNCHANGED <<strategy_history, other>>

\* if not self.should_reject(attempt): return attempt.get(self._wrap_exception)
Decide ==
    /\ pc = "reject"
    /\ IF ~ _MaybeReject_call(cfg.should_reject, attempt)
       THEN /\ result' = Attempt_get(attempt, cfg._wrap_exception)
            /\ pc' = "ACCEPTED"
            /\ UNCHANGED rejections
       ELSE /\ rejections' = rejections + 1
            /\ pc' = "after"
            /\ UNCHANGED result
    /\ UNCHANGED <<cfg, now, start_time, attempt_number, attempt,
                   delay_since_first_attempt_ms, sleep, invocations, raised,
                   before_log, after_log>>
    /\ UNCHANGED <<strategy_history, other>>

\* if self._after_attempts: self._after_attempts(attempt_number)
AfterAttempt ==
    /\ pc = "after"
    /\ after_log' = HookCall(cfg._after_attempts, after_log, attempt_number)
    /\ IF cfg._after_attempts = "raising"
       THEN /\ result' = HookError(attempt_number, "after_attempts")
            /\ pc' = "ERROR"
       ELSE /\ pc' = "stop"
            /\ UNCHANGED result
    /\ UNCHANGED <<cfg, now, start_time, attempt_number, attempt,
                   delay_since_first_attempt_ms, sleep, invocations,
                   raised, rejections, before_log>>
    /\ UNCHANGED <<strategy_history, other>>

\* Mutant: wrap_exception ignored when the last attempt raised
GiveUp_never_wraps(wrap_exception, att) ==
    IF att.has_exception THEN Attempt_get(att, FALSE) ELSE RetryError(att)

\* Mutant: `and attempt.has_exception` dropped, so get() hands back a value
GiveUp_any_attempt(wrap_exception, att) ==
    IF ~ wrap_exception THEN Attempt_get(att, FALSE) ELSE RetryError(att)

\* What call() raises when the stop strategy says to give up
GiveUp(wrap_exception, att) ==
    IF ~ wrap_exception /\ att.has_exception
    THEN Attempt_get(att, FALSE)
    ELSE RetryError(att)

\* Mutant: the test of self.stop inverted, so no stop strategy means stop
ShouldStop_without_strategy(stop, number, delay_ms) ==
    stop = None \/ StopCall(stop, number, delay_ms)

\* self.stop and self.stop(attempt_number, delay_since_first_attempt_ms)
ShouldStop(stop, number, delay_ms) ==
    stop # None /\ StopCall(stop, number, delay_ms)

\* (attempt_number, delay_since_first_attempt_ms), the arguments call() hands
\* to self.stop
StopArgs(number, delay_ms) == <<number, delay_ms>>

\* Mutant: the wait is computed for the attempt to come
WaitArgs_next_attempt(number, delay_ms) == <<number + 1, delay_ms>>

\* (attempt_number, delay_since_first_attempt_ms), the arguments call() hands
\* to self.wait
WaitArgs(number, delay_ms) == <<number, delay_ms>>

\* delay_since_first_attempt_ms = int(round(time.time() * 1000)) - start_time
\* if self.stop and self.stop(...): raise ...   else: (the wait)
Stop ==
    /\ pc = "stop"
    /\ delay_since_first_attempt_ms' = now - start_time
    /\ IF cfg.stop # None
       THEN /\ stop_log' = Append(stop_log, StopArgs(attempt_number, now - start_time)[1])
            /\ stop_args' = StopArgs(attempt_number, now - start_time)
       ELSE UNCHANGED <<stop_log, stop_args>>
    /\ IF ShouldStop(cfg.stop, StopArgs(attempt_number, now - start_time)[1],
                               StopArgs(attempt_number, now - start_time)[2])
       THEN /\ result' = GiveUp(cfg._wrap_exception, attempt)
            /\ pc' = "GIVING_UP"
       ELSE /\ pc' = "wait"
            /\ UNCHANGED result
    /\ UNCHANGED <<cfg, now, start_time, attempt_number, attempt, sleep,
                   invocations, raised, rejections, before_log, after_log>>
    /\ UNCHANGED <<wait_log, wait_args, wait_result, sleeps, other>>

\* The delays self.wait can return here (0 when self.wait is None); the
\* empty set when it raises
WaitResults(wait, number, delay_ms) ==
    IF wait # None THEN WaitCall(wait, number, delay_ms) ELSE {0}

\* Mutant: the jitter reaches wait_jitter_max, as if random.random() were in (0, 1]
Jittered_upto_max(w, wait_jitter_max, q) ==
    IF wait_jitter_max # 0
    THEN w * RandomDen + Max(0, (q + 1) * wait_jitter_max)
    ELSE w * RandomDen

\* sleep + max(0, jitter) with jitter = random.random() * self._wait_jitter_max,
\* random.random() = q / RandomDen; sleeps are in 1/RandomDen ms
Jittered(w, wait_jitter_max, q) ==
    IF wait_jitter_max # 0
    THEN w * RandomDen + Max(0, q * wait_jitter_max)
    ELSE w * RandomDen

\* sleep = self.wait(...), kept in wait_result; the jitter;
\* time.sleep(sleep / 1000.0); attempt_number += 1.  random.randint raises
\* ValueError on an empty range and time.sleep raises ValueError on a
\* negative duration: either leaves call() at once.
Wait ==
    /\ pc = "wait"
    /\ LET args == WaitArgs(attempt_number, delay_since_first_attempt_ms)
           ws   == WaitResults(cfg.wait, args[1], args[2])
       IN  IF ws = {}
           THEN /\ result' = Raise(Payload("ValueError", attempt_number, "random.randint"))
                /\ pc' = "ERROR"
                /\ UNCHANGED <<sleep, now, attempt_number, wait_result, sleeps>>
           ELSE \E w \in ws, q \in 0 .. RandomDen - 1 :
                   LET s == Jittered(w, cfg._wait_jitter_max, q)
                   IN  /\ sleep' = s
                       /\ wait_result' = w
                       /\ IF s < 0
                          THEN /\ result' = Raise(Payload("ValueError", attempt_number,
                                                          "time.sleep"))
                               /\ pc' = "ERROR"
                               /\ UNCHANGED <<now, attempt_number, sleeps>>
                          ELSE /\ now' = now + (s \div RandomDen)
                               /\ sleeps' = sleeps + 1
                               /\ attempt_number' = attempt_number + 1
                               /\ pc' = "before"
                               /\ UNCHANGED result
    /\ IF cfg.wait # None
       THEN /\ wait_log' = Append(wait_log, WaitArgs(attempt_number,
                                                    delay_since_first_attempt_ms)[1])
            /\ wait_args' = WaitArgs(attempt_number, delay_since_first_attempt_ms)
       ELSE UNCHANGED <<wait_log, wait_args>>
    /\ UNCHANGED <<cfg, start_time, attempt, delay_since_first_attempt_ms,
                   invocations, raised, rejections, before_log, after_log>>
    /\ UNCHANGED <<stop_log, stop_args, other>>

Next == Call \/ BeforeAttempt \/ Invoke \/ Decide \/ AfterAttempt \/ Stop \/ Wait

-----------------------------------------------------------------------------
(* A second execution of call() on the same Retrying object.  call() keeps  *)
(* start_time, attempt_number, attempt, delay_since_first_attempt_ms and    *)
(* sleep in local variables; a Frame is one execution's locals, with its    *)
(* position, its outcome and the number of invocations it made.  The two    *)
(* executions share self (cfg) and the clock.                               *)

Frame(p, st, n, att, d, sl, res, inv) ==
    [pc |-> p, start_time |-> st, attempt_number |-> n, attempt |-> att,
     delay_since_first_attempt_ms |-> d, sleep |-> sl, result |-> res,
     invocations |-> inv]

\* A call() that has not begun
NoFrame == Frame("idle", 0, 0, NoAttempt, 0, 0, NoResult, 0)

\* Mutant: the attempt counter is the controller's, not the call's
CallEntry_counter_of_controller(f, t) ==
    [f EXCEPT !.pc = "before", !.start_time = t,
              !.attempt_number = Max(1, attempt_number)]

\* start_time = int(round(time.time() * 1000)); attempt_number = 1
CallEntry(f, t) ==
    [f EXCEPT !.pc = "before", !.start_time = t, !.attempt_number = 1]

\* One step of call() on the locals f at time t: the pairs <<f', t'>> of
\* the locals and the time after the step
CallSteps(f, t) ==
    CASE f.pc = "idle" -> {<<CallEntry(f, t), t>>}
      [] f.pc = "before" ->
            IF f.invocations >= MaxAttempts THEN {}
            ELSE IF cfg._before_attempts = "raising"
            THEN {<<[f EXCEPT !.pc = "ERROR",
                              !.result = HookError(f.attempt_number, "before_attempts")], t>>}
            ELSE {<<[f EXCEPT !.pc = "invoke"], t>>}
      [] f.pc = "invoke" ->
            {<<[f EXCEPT !.pc = "reject",
                         !.attempt = Attempt(Payload(name, f.invocations + 1, "fn"),
                                             f.attempt_number, name \in Errors),
                         !.invocations = f.invocations + 1], t + ms>> :
                name \in Values \cup Errors, ms \in 0 .. MaxOpMs}
      [] f.pc = "reject" ->
            IF ~_MaybeReject_call(cfg.should_reject, f.attempt)
            THEN {<<[f EXCEPT !.pc = "ACCEPTED",
                              !.result = Attempt_get(f.attempt, cfg._wrap_exception)], t>>}
            ELSE {<<[f EXCEPT !.pc = "after"], t>>}
      [] f.pc = "after" ->
            IF cfg._after_attempts = "raising"
            THEN {<<[f EXCEPT !.pc = "ERROR",
                              !.result = HookError(f.attempt_number, "after_attempts")], t>>}
            ELSE {<<[f EXCEPT !.pc = "stop"], t>>}
      [] f.pc = "stop" ->
            IF ShouldStop(cfg.stop, f.attempt_number, t - f.start_time)
            THEN {<<[f EXCEPT !.pc = "GIVING_UP",
                              !.delay_since_first_attempt_ms = t - f.start_time,
                              !.result = GiveUp(cfg._wrap_exception, f.attempt)], t>>}
            ELSE {<<[f EXCEPT !.pc = "wait",
                              !.delay_since_first_attempt_ms = t - f.start_time], t>>}
      [] f.pc = "wait" ->
            LET ws == WaitResults(cfg.wait, f.attempt_number,
                                  f.delay_since_first_attempt_ms)
            IN  IF ws = {}
                THEN {<<[f EXCEPT !.pc = "ERROR",
                                  !.result = Raise(Payload("ValueError", f.attempt_number,
                                                           "random.randint"))], t>>}
                ELSE {IF Jittered(w, cfg._wait_jitter_max, q) < 0
                      THEN <<[f EXCEPT !.pc = "ERROR",
                                       !.sleep = Jittered(w, cfg._wait_jitter_max, q),
                                       !.result = Raise(Payload("ValueError",
                                                                f.attempt_number,
                                                                "time.sleep"))], t>>
                      ELSE <<[f EXCEPT !.pc = "before",
                                       !.sleep = Jittered(w, cfg._wait_jitter_max, q),
                                       !.attempt_number = f.attempt_number + 1],
                             t + (Jittered(w, cfg._wait_jitter_max, q) \div RandomDen)>> :
                        w \in ws, q \in 0 .. RandomDen - 1}
      [] OTHER -> {}

\* A step of the second execution
OtherCall ==
    /\ \E step \in CallSteps(other, now) :
          /\ other' = step[1]
          /\ now' = step[2]
    /\ UNCHANGED <<cfg, pc, start_time, attempt_number, attempt,
                   delay_since_first_attempt_ms, sleep, result, invocations,
                   raised, rejections, before_log, after_log>>
    /\ UNCHANGED strategy_history

\* The steps of two executions of call(), interleaved in any way
NextOfTwoCalls == Next \/ OtherCall

-----------------------------------------------------------------------------
(* The configurations a call is checked for *)

Stops ==
    {None} \cup {stop_after_attempt(n) : n \in 1 .. MaxStop}
           \cup {stop_after_delay(d) : d \in 0 .. MaxDelay}

\* Waits whose every delay is a non-negative number: no wait, and each of
\* the five strategies with parameters that are not negative, min <= max
WellFormedWaits ==
    {None, wait_none}
        \cup {wait_fixed(w) : w \in 0 .. MaxWait}
        \cup {wait_random(0, MaxWait),
              wait_incrementing(0, MaxWait, MaxWait + MaxWait),
              wait_exponential(MaxWait, MaxWait + MaxWait)}

\* The five wait strategies with any integer parameters
Params == (0 - MaxMag) .. MaxMag

AnyWaits ==
    {wait_none}
        \cup {wait_fixed(w) : w \in Params}
        \cup {wait_random(lo, hi) : lo \in Params, hi \in Params}
        \cup {wait_incrementing(st, inc, mx) :
                 st \in {0 - MaxMag, 0, MaxMag}, inc \in Params, mx \in Params}
        \cup {wait_exponential(mult, mx) : mult \in Params, mx \in Params}

RetryOnExceptions == {NonePredicate, Fn({"ErrorX"}), Tuple({"ErrorY"})}

RetryOnResults == {NonePredicate, Fn({"NotReady"})}

Hooks == {"None", "hook"}

\* The state once the Retrying object is built and call() has not begun
InitWith(stops, waits, roes, rors, wraps, jitters, befores, afters) ==
    /\ cfg \in {Retrying(st, w, roe, ror, wr, j, b, a) :
                    st \in stops, w \in waits, roe \in roes, ror \in rors,
                    wr \in wraps, j \in jitters, b \in befores, a \in afters}
    /\ pc = "idle"
    /\ now = 0
    /\ start_time = 0
    /\ attempt_number = 0
    /\ attempt = NoAttempt
    /\ delay_since_first_attempt_ms = 0
    /\ sleep = 0
    /\ result = NoResult
    /\ invocations = 0
    /\ raised = 0
    /\ rejections = 0
    /\ before_log = <<>>
    /\ after_log = <<>>
    /\ stop_log = <<>>
    /\ wait_log = <<>>
    /\ stop_args = <<>>
    /\ wait_args = <<>>
    /\ wait_result = 0
    /\ sleeps = 0
    /\ other = NoFrame

\* Every stop and reject configuration, with waits that are well formed,
\* without hooks or with both hooks
Init ==
    \E hook \in Hooks :
        InitWith(Stops, WellFormedWaits, RetryOnExceptions, RetryOnResults,
                 BOOLEAN, {0}, {hook}, {hook})

Spec == Init /\ [][Next]_vars

\* The calls bounded by stop_after_attempt, with both hooks configured, run
\* to their end: call() is one sequential thread, so a step that can be
\* taken is taken
InitStopAfterAttempt ==
    InitWith({stop_after_attempt(n) : n \in 1 .. MaxStop}, WellFormedWaits,
             RetryOnExceptions, RetryOnResults, BOOLEAN, {0}, {"hook"}, {"hook"})

FairSpec == InitStopAfterAttempt /\ [][Next]_vars /\ WF_vars(Next)

\* Every wait strategy with any integer parameters, with and without jitter
InitAnyWait ==
    InitWith({None, stop_after_attempt(1)}, AnyWaits,
             {NonePredicate}, {NonePredicate}, {FALSE}, {0, MaxJitter},
             {"None"}, {"None"})

SpecAnyWait == InitAnyWait /\ [][Next]_vars

\* Hooks that return and hooks that raise
AnyHooks == Hooks \cup {"raising"}

InitAnyHook ==
    InitWith({None, stop_after_attempt(MaxStop)}, {wait_none, wait_fixed(MaxWait)},
             {NonePredicate}, RetryOnResults, BOOLEAN, {0}, AnyHooks, AnyHooks)

SpecAnyHook == InitAnyHook /\ [][Next]_vars

\* Two executions of call() on one Retrying object, bounded by attempts or
\* by elapsed time
InitTwoCalls ==
    InitWith({stop_after_attempt(2), stop_after_delay(MaxDelay)}, {wait_fixed(MaxWait)},
             {NonePredicate}, {NonePredicate}, {FALSE}, {0}, {"None"}, {"None"})

SpecTwoCalls == InitTwoCalls /\ [][NextOfTwoCalls]_vars

-----------------------------------------------------------------------------
(* Properties *)

\* The reject strategy's verdict on an attempt of this call
Rejected(att) == _MaybeReject_call(cfg.should_reject, att)

\* Every invocation so far raised, and every attempt so far was rejected
AlwaysRaisedRetryable == raised = invocations /\ rejections = invocations

\* C1: with stop_after_attempt(n), wrap_exception=False and an operation that
\* raises a retryable error on every invocation, call() ends after exactly n
\* invocations (never more than n are made) by raising the error captured on
\* the n-th invocation: not a RetryError, not an earlier attempt's error.
UnwrappedExhaustion ==
    \A n \in 1 .. MaxStop :
        (cfg.stop = stop_after_attempt(n) /\ ~ cfg._wrap_exception) =>
            /\ invocations <= n
            /\ (pc \in Terminal /\ AlwaysRaisedRetryable) =>
                  /\ invocations = n
                  /\ result.kind = "raise"
                  /\ result.value = attempt.value
                  /\ result.value.name \in Errors
                  /\ result.value.at = n
                  /\ result.value.from = "fn"

UnwrappedExhaustionWitness ==
    /\ cfg.stop = stop_after_attempt(MaxStop)
    /\ ~ cfg._wrap_exception
    /\ pc = "GIVING_UP"
    /\ raised = MaxStop
    /\ result.kind = "raise"

\* C2: the same with wrap_exception=True: after exactly n invocations call()
\* raises a RetryError whose last_attempt has has_exception = True,
\* attempt_number = n and the error captured on the n-th invocation.
WrappedExhaustion ==
    \A n \in 1 .. MaxStop :
        (cfg.stop = stop_after_attempt(n) /\ cfg._wrap_exception) =>
            /\ invocations <= n
            /\ (pc \in Terminal /\ AlwaysRaisedRetryable) =>
                  /\ invocations = n
                  /\ result.kind = "RetryError"
                  /\ result.last_attempt = attempt
                  /\ result.last_attempt.has_exception
                  /\ result.last_attempt.attempt_number = n
                  /\ result.last_attempt.value.name \in Errors
                  /\ result.last_attempt.value.at = n

WrappedExhaustionWitness ==
    /\ cfg.stop = stop_after_attempt(MaxStop)
    /\ cfg._wrap_exception
    /\ pc = "GIVING_UP"
    /\ raised = MaxStop
    /\ result.kind = "RetryError"
    /\ result.last_attempt.attempt_number = MaxStop

\* C3: when attempt k is the first one the reject strategy accepts and it
\* holds a returned value, call() returns exactly that value after exactly k
\* invocations, the k-1 earlier attempts having all been rejected; call()
\* goes on past an attempt, or gives up on it, only if it was rejected, and a
\* stop_after_attempt(n) never gives up before attempt n.
FirstAcceptedAttemptWins ==
    /\ (pc = "ACCEPTED" /\ ~ attempt.has_exception) =>
          /\ result = Return(attempt.value)
          /\ result.value.name \in Values
          /\ result.value.at = invocations
          /\ attempt.attempt_number = invocations
          /\ rejections = invocations - 1
    /\ (pc \in {"after", "stop", "wait", "before", "invoke", "GIVING_UP"}
            /\ attempt # NoAttempt) =>
          Rejected(attempt)
    /\ result.kind = "return" => pc = "ACCEPTED"
    /\ (pc = "GIVING_UP" /\ cfg.stop.kind = "stop_after_attempt") =>
          invocations >= cfg.stop.a

FirstAcceptedAttemptWinsWitness ==
    /\ pc = "ACCEPTED"
    /\ cfg.stop = stop_after_attempt(MaxStop)
    /\ invocations = MaxStop
    /\ raised = MaxStop - 1
    /\ result.kind = "return"
    /\ result.value = Payload("V", MaxStop, "fn")

RejectedSuccessExhaustion ==
    (pc = "GIVING_UP" /\ ~ attempt.has_exception) =>
        /\ result = RetryError(attempt)
        /\ result.last_attempt.value.name \in Values
        /\ result.last_attempt.value.at = invocations
        /\ Apply(cfg.should_reject.retry_on_result, result.last_attempt.value.name)

RejectedSuccessExhaustionWitness ==
    /\ pc = "GIVING_UP"
    /\ ~ attempt.has_exception
    /\ ~ cfg._wrap_exception
    /\ result.kind = "RetryError"
    /\ result.last_attempt.value.name = "NotReady"

NoStopState ==
    /\ pc # "GIVING_UP"
    /\ pc \in Terminal =>
          /\ pc = "ACCEPTED"
          /\ ~ Rejected(attempt)
          /\ result = Attempt_get(attempt, cfg._wrap_exception)
    /\ result.kind = "raise" => (~ Rejected(attempt) /\ result.value = attempt.value)
    /\ result.kind = "RetryError" =>
          /\ cfg._wrap_exception
          /\ attempt.has_exception
          /\ ~ Rejected(attempt)
          /\ result.last_attempt = attempt

StopsAfterAttempt == cfg.stop.kind = "stop_after_attempt"

\* C7: with stop_after_attempt(n), an operation that always returns or raises
\* and waits that return non-negative delays, every call() eventually reaches
\* one terminal state, ACCEPTED (the attempt was accepted) or GIVING_UP (it
\* was rejected and the stop strategy fired), after at most n invocations,
\* and takes no step, so invokes nothing, once it is terminal.
BoundedTermination ==
    /\ StopsAfterAttempt ~> (pc \in {"ACCEPTED", "GIVING_UP"})
    /\ [](StopsAfterAttempt =>
            /\ invocations <= cfg.stop.a
            /\ pc # "ERROR"
            /\ pc = "ACCEPTED" => (~ Rejected(attempt) /\ result.kind # "none")
            /\ pc = "GIVING_UP" =>
                  /\ Rejected(attempt)
                  /\ result.kind \in {"raise", "RetryError"}
                  /\ invocations = cfg.stop.a)
    /\ [][(StopsAfterAttempt /\ pc \in Terminal) => FALSE]_vars

BoundedTerminationWitness ==
    /\ cfg.stop = stop_after_attempt(MaxStop)
    /\ cfg.wait = wait_fixed(MaxWait)
    /\ pc = "ACCEPTED"
    /\ invocations = MaxStop
    /\ now > 0

Min(x, y) == IF x <= y THEN x ELSE y

\* C8: every delay a wait strategy returns, whatever its integer parameters,
\* is >= 0, and so is the duration call() passes to the sleep.
DelaysNeverNegative ==
    /\ pc = "wait" =>
          \A w \in WaitResults(cfg.wait, attempt_number, delay_since_first_attempt_ms) :
              w >= 0
    /\ sleep >= 0

\* C9: a call() whose wait is a wait_random with min > max ends with the
\* configuration error and nothing else, also when its first attempt is
\* accepted or its stop strategy fires on the first attempt, and the
\* operation is not invoked once the error is raised.
ReversedRandomBounds == cfg.wait.kind = "wait_random" /\ cfg.wait.a > cfg.wait.b

ConfigurationErrorEager ==
    (ReversedRandomBounds /\ pc \in Terminal) =>
        /\ pc = "ERROR"
        /\ result = Raise(Payload("ValueError", attempt_number, "random.randint"))

\* C10 as claimed: wait_incrementing(s, i, m)(k, elapsed) is
\* min(max(0, s + i*(k-1)), m) for all integers s, i, m and k >= 1.
IncrementingAsClaimed(self, k) == Min(Max(0, self.a + self.b * (k - 1)), self.c)

WaitIncrementingMinOfMax ==
    (pc = "wait" /\ cfg.wait.kind = "wait_incrementing") =>
        \A elapsed \in 0 .. MaxDelay :
            wait_incrementing_call(cfg.wait, attempt_number, elapsed)
                = {IncrementingAsClaimed(cfg.wait, attempt_number)}

\* C10, amended: wait_incrementing(s, i, m)(k, elapsed) is
\* max(0, min(s + i*(k-1), m)) for all integers s, i, m and k >= 1, whatever
\* elapsed is: the claimed min(max(0, s + i*(k-1)), m) when m >= 0, and 0
\* when m < 0; it is what call() then sleeps when no jitter is configured.
IncrementingClamped(self, k) == Max(0, Min(self.a + self.b * (k - 1), self.c))

WaitIncrementingMaxOfMin ==
    /\ (pc = "wait" /\ cfg.wait.kind = "wait_incrementing") =>
          /\ \A elapsed \in 0 .. MaxDelay :
                wait_incrementing_call(cfg.wait, attempt_number, elapsed)
                    = {IncrementingClamped(cfg.wait, attempt_number)}
          /\ WaitResults(cfg.wait, attempt_number, delay_since_first_attempt_ms)
                    = {IncrementingClamped(cfg.wait, attempt_number)}
          /\ cfg.wait.c >= 0 =>
                IncrementingClamped(cfg.wait, attempt_number)
                    = IncrementingAsClaimed(cfg.wait, attempt_number)
          /\ cfg.wait.c < 0 => IncrementingClamped(cfg.wait, attempt_number) = 0
    /\ (pc = "before" /\ attempt_number > 1 /\ cfg.wait.kind = "wait_incrementing"
            /\ cfg._wait_jitter_max = 0) =>
          sleep = RandomDen * IncrementingClamped(cfg.wait, attempt_number - 1)

WaitIncrementingWitness ==
    /\ pc = "before"
    /\ attempt_number = MaxAttempts
    /\ cfg.wait = wait_incrementing(0 - MaxMag, MaxMag, 0 - MaxMag)
    /\ cfg._wait_jitter_max = 0
    /\ sleep = 0

\* C11 as claimed: wait_exponential(mult, m)(k, elapsed) is min(mult * 2^k, m)
\* for all integers mult, m and k >= 1.
ExponentialAsClaimed(self, k) == Min(self.a * Pow(EXP_BASE, k), self.b)

WaitExponentialMin ==
    (pc = "wait" /\ cfg.wait.kind = "wait_exponential" /\ attempt_number = 1) =>
        \A k \in 1 .. MaxExponent, elapsed \in 0 .. MaxDelay :
            wait_exponential_call(cfg.wait, k, elapsed)
                = {ExponentialAsClaimed(cfg.wait, k)}

\* C11, amended: wait_exponential(mult, m)(k, elapsed) is
\* max(0, min(mult * 2^k, m)) for all integers mult, m and k >= 1, whatever
\* elapsed is: the claimed min(mult * 2^k, m) when mult >= 0 and m >= 0, and 0
\* when mult < 0 or m < 0.  It never raises, never exceeds max(0, m), is m
\* once mult * 2^k >= m >= 0, does not decrease with k when mult >= 0, and is
\* what call() then sleeps when no jitter is configured.
ExponentialClamped(self, k) == Max(0, Min(self.a * Pow(EXP_BASE, k), self.b))

\* The attempt numbers the strategy is evaluated at: all of 1..MaxExponent
\* at the first wait of a call, the current one at the later waits
ExponentsChecked == IF attempt_number = 1 THEN 1 .. MaxExponent ELSE {attempt_number}

WaitExponentialClamped ==
    /\ (pc = "wait" /\ cfg.wait.kind = "wait_exponential") =>
          /\ \A k \in ExponentsChecked, elapsed \in 0 .. MaxDelay :
                /\ wait_exponential_call(cfg.wait, k, elapsed)
                      = {ExponentialClamped(cfg.wait, k)}
                /\ ExponentialClamped(cfg.wait, k) <= Max(0, cfg.wait.b)
                /\ (cfg.wait.a >= 0 /\ cfg.wait.b >= 0) =>
                      ExponentialClamped(cfg.wait, k) = ExponentialAsClaimed(cfg.wait, k)
                /\ (cfg.wait.a < 0 \/ cfg.wait.b < 0) =>
                      ExponentialClamped(cfg.wait, k) = 0
                /\ (cfg.wait.a * Pow(EXP_BASE, k) >= cfg.wait.b /\ cfg.wait.b >= 0) =>
                      wait_exponential_call(cfg.wait, k, elapsed) = {cfg.wait.b}
                /\ cfg.wait.a >= 0 =>
                      \A r1 \in wait_exponential_call(cfg.wait, k, elapsed),
                         r2 \in wait_exponential_call(cfg.wait, k + 1, elapsed) :
                            r1 <= r2
          /\ WaitResults(cfg.wait, attempt_number, delay_since_first_attempt_ms)
                = {ExponentialClamped(cfg.wait, attempt_number)}
    /\ (pc = "before" /\ attempt_number > 1 /\ cfg.wait.kind = "wait_exponential"
            /\ cfg._wait_jitter_max = 0) =>
          sleep = RandomDen * ExponentialClamped(cfg.wait, attempt_number - 1)

WaitExponentialWitness ==
    /\ pc = "before"
    /\ attempt_number = MaxAttempts
    /\ cfg.wait = wait_exponential(0 - MaxMag, MaxMag)
    /\ cfg._wait_jitter_max = 0
    /\ sleep = 0

\* A reject strategy gives the attempt call() built the defaults' verdict:
\* false for a Success, true for a Failure
RejectsFailuresOnly(strategy) ==
    attempt # NoAttempt => (_MaybeReject_call(strategy, attempt) <=> attempt.has_exception)

\* The part of C12 that holds: the strategy Retrying builds through
\* _select_reject_strategy from retry_on_exception=None, retry_on_result=None
\* rejects exactly the Failures, and call() acts on that verdict.
RejectDefaultsSelected ==
    /\ RejectsFailuresOnly(_select_reject_strategy(NonePredicate, NonePredicate))
    /\ (cfg.should_reject = _select_reject_strategy(NonePredicate, NonePredicate)
            /\ pc \in {"after", "ACCEPTED"}) =>
          (attempt.has_exception <=> pc = "after")

\* C12: a reject strategy built with retry_on_exception=None and
\* retry_on_result=None returns false for every Success and true for every
\* Failure, both when Retrying builds it through _select_reject_strategy and
\* when it is a _MaybeReject constructed directly with those two arguments.
RejectDefaults ==
    /\ RejectDefaultsSelected
    /\ RejectsFailuresOnly(_MaybeReject(NonePredicate, NonePredicate))

\* C13: with stop_after_delay(d), call() gives up at the first rejected attempt
\* whose elapsed time since the start of call(), measured once the attempt is
\* complete, is >= d, and never after an attempt whose elapsed time is < d.
\* The stop strategy is consulted only after a completed, rejected attempt:
\* fn is invoked at least once even when d = 0, and no step but that
\* consultation gives up, however long an invocation runs.
StopsAfterDelay == cfg.stop.kind = "stop_after_delay"

StopAfterDelayBetweenAttempts ==
    /\ [](StopsAfterDelay =>
            /\ pc = "GIVING_UP" =>
                  /\ invocations >= 1
                  /\ attempt.value.at = invocations
                  /\ Rejected(attempt)
                  /\ delay_since_first_attempt_ms = now - start_time
                  /\ delay_since_first_attempt_ms >= cfg.stop.a
                  /\ stop_args = <<attempt_number, delay_since_first_attempt_ms>>
            /\ (pc = "wait" \/ (pc \in {"before", "invoke"} /\ attempt_number > 1)) =>
                  delay_since_first_attempt_ms < cfg.stop.a
            /\ Len(stop_log) = IF pc \in {"after", "stop"} THEN rejections - 1
                                                             ELSE rejections)
    /\ [][(StopsAfterDelay /\ pc = "stop") =>
            /\ Rejected(attempt)
            /\ pc' = IF now - start_time >= cfg.stop.a THEN "GIVING_UP" ELSE "wait"
            /\ invocations' = invocations]_vars
    /\ [][(StopsAfterDelay /\ pc' = "GIVING_UP") => pc = "stop"]_vars
    /\ [][(StopsAfterDelay /\ pc = "invoke") =>
            (pc' = "reject" /\ invocations' = invocations + 1)]_vars

StopAfterDelayWitness ==
    /\ pc = "GIVING_UP"
    /\ cfg.stop = stop_after_delay(MaxDelay)
    /\ invocations = 3
    /\ delay_since_first_attempt_ms = MaxDelay

\* C14: with wait_jitter_max = j > 0 the delay call() hands to time.sleep is
\* the wait strategy's result w plus an amount in [0, j), so it lies in
\* [w, w + j), for every wait strategy; with no jitter configured it is w
\* exactly.  (sleep is in 1/RandomDen ms.)
SleepComputed ==
    \/ pc = "before" /\ attempt_number > 1
    \/ pc = "ERROR" /\ result.value.from = "time.sleep"

JitterBound ==
    SleepComputed =>
        /\ wait_result \in WaitResults(cfg.wait, attempt.attempt_number,
                                        delay_since_first_attempt_ms)
        /\ cfg._wait_jitter_max > 0 =>
              /\ wait_result * RandomDen <= sleep
              /\ sleep < (wait_result + cfg._wait_jitter_max) * RandomDen
        /\ cfg._wait_jitter_max = 0 => sleep = wait_result * RandomDen

JitterBoundWitness ==
    /\ pc = "before"
    /\ attempt_number = 3
    /\ cfg.wait = wait_fixed(MaxMag)
    /\ cfg._wait_jitter_max = MaxJitter
    /\ sleep > wait_result * RandomDen

\* C15: the hooks are not control points.  Whatever hooks are configured and
\* whatever a hook does when invoked, returning or failing, the call goes as
\* it does with no hook: nothing a hook raises leaves call(), the call ends
\* only with the outcome its last attempt determines, after at least one
\* invocation, and one delay is slept between two invocations.
HooksNotControlPoints ==
    /\ result.value.from \notin {"before_attempts", "after_attempts"}
    /\ pc \in Terminal =>
          /\ invocations >= 1
          /\ attempt.value.at = invocations
          /\ result = IF Rejected(attempt)
                      THEN GiveUp(cfg._wrap_exception, attempt)
                      ELSE Attempt_get(attempt, cfg._wrap_exception)
    /\ pc # "idle" => sleeps = attempt_number - 1

\* The attempt numbers 1, 2, ..., n in order
UpTo(n) == [i \in 1 .. n |-> i]

\* C17: after_attempts(k) is invoked if and only if attempt k was rejected,
\* after the reject decision on attempt k and before the stop strategy is
\* evaluated for it; it is never invoked for the attempt that is accepted,
\* and on exhaustion after n attempts it has been invoked exactly n times,
\* with the arguments 1, 2, ..., n in that order.
AfterHookOnRejection ==
    /\ [](cfg._after_attempts # "None" =>
            /\ after_log = UpTo(Len(after_log))
            /\ Len(after_log) = IF pc = "after" THEN rejections - 1 ELSE rejections
            /\ pc = "stop" => Len(after_log) = attempt_number
            /\ pc = "ACCEPTED" => after_log = UpTo(invocations - 1)
            /\ pc = "GIVING_UP" => after_log = UpTo(invocations))
    /\ [][(cfg._after_attempts # "None" /\ after_log' # after_log) =>
            /\ pc = "after"
            /\ Rejected(attempt)
            /\ attempt.attempt_number = attempt_number
            /\ after_log' = Append(after_log, attempt_number)
            /\ stop_log' = stop_log]_vars
    /\ [][(cfg._after_attempts # "None" /\ stop_log' # stop_log) =>
            /\ Len(after_log) = attempt_number
            /\ stop_log' = Append(stop_log, attempt_number)
            /\ after_log' = after_log]_vars
    /\ [][(cfg._after_attempts # "None" /\ pc = "reject") =>
            IF Rejected(attempt) THEN pc' = "after"
            ELSE pc' = "ACCEPTED" /\ after_log' = after_log]_vars

AfterHookWitness ==
    /\ pc = "GIVING_UP"
    /\ cfg._after_attempts = "hook"
    /\ invocations = MaxStop
    /\ after_log = UpTo(MaxStop)
    /\ stop_log = UpTo(MaxStop)

\* C18: the k-th invocation of fn is immediately preceded by exactly one
\* before_attempts(k): at every point the number of before_attempts calls is
\* the number of invocations started, their arguments are 1, 2, ... in
\* order, and the hook is never invoked without fn being invoked next.
InvocationsStarted == IF pc = "invoke" THEN invocations + 1 ELSE invocations

BeforeHookPrecedesInvocation ==
    cfg._before_attempts # "None" => before_log = UpTo(InvocationsStarted)

\* C19: call() sleeps only between attempts.  A delay is slept only after a
\* rejected attempt for which the stop strategy said continue, and each is
\* followed by another invocation: none before the first invocation, none
\* after the last, and a call that made n invocations slept exactly n - 1
\* delays.  The k-th delay is wait(k, elapsed_k), with the (k, elapsed_k) the
\* stop strategy was given for attempt k.
SleepsOnlyBetweenAttempts ==
    /\ [](/\ pc # "idle" => sleeps = attempt_number - 1
          /\ sleeps = IF pc \in {"before", "invoke"} THEN invocations
                                                     ELSE Max(0, invocations - 1)
          /\ pc \in Terminal => sleeps = invocations - 1
          /\ cfg.wait # None =>
                 wait_log = UpTo(IF pc = "ERROR" THEN sleeps + 1 ELSE sleeps)
          /\ (cfg.wait # None /\ cfg.stop # None /\ sleeps >= 1 /\ pc # "ERROR") =>
                 /\ wait_args[1] = sleeps
                 /\ pc \in {"before", "invoke", "reject", "after", "stop"} =>
                       wait_args = stop_args)
    /\ [][sleeps' # sleeps =>
            /\ pc = "wait" /\ pc' = "before"
            /\ sleeps' = sleeps + 1
            /\ invocations' = invocations
            /\ Rejected(attempt)
            /\ attempt.attempt_number = attempt_number
            /\ ~ShouldStop(cfg.stop, attempt_number, delay_since_first_attempt_ms)
            /\ cfg.stop # None =>
                  stop_args = <<attempt_number, delay_since_first_attempt_ms>>
            /\ sleep' \in {Jittered(w, cfg._wait_jitter_max, q) :
                              w \in WaitResults(cfg.wait, attempt_number,
                                                delay_since_first_attempt_ms),
                              q \in 0 .. RandomDen - 1}
            /\ sleep' >= 0
            /\ now' = now + (sleep' \div RandomDen)]_vars
    /\ [][pc = "before" => (pc' = "invoke" /\ sleeps' = sleeps)]_vars
    /\ [][pc = "invoke" => (invocations' = invocations + 1 /\ sleeps' = sleeps)]_vars

SleepsOnlyBetweenAttemptsWitness ==
    /\ pc = "GIVING_UP"
    /\ cfg.stop = stop_after_attempt(MaxStop)
    /\ cfg.wait = wait_incrementing(0, MaxWait, MaxWait + MaxWait)
    /\ invocations = MaxStop
    /\ sleeps = MaxStop - 1
    /\ sleep = RandomDen * MaxWait
    /\ wait_args[1] = MaxStop - 1

\* The last argument a hook or strategy was called with
Last(log) == log[Len(log)]

\* C20: attempt_number is the number of invocations of fn so far, counting
\* the one about to run or running; the Attempt built after the k-th
\* invocation carries attempt_number = k; the numbers start at 1 and grow by
\* exactly 1 per invocation; the hooks, the stop strategy and the wait
\* strategy of one iteration are handed that iteration's k; and the Attempt
\* kept in the RetryError raised on exhaustion is the last one built.
AttemptNumbering ==
    /\ [](/\ pc # "idle" =>
                attempt_number = IF pc \in {"before", "invoke"} THEN invocations + 1
                                                               ELSE invocations
          /\ attempt # NoAttempt =>
                /\ attempt.value.at = invocations
                /\ attempt.attempt_number = invocations
          /\ (pc = "GIVING_UP" /\ result.kind = "RetryError") =>
                result.last_attempt = attempt)
    /\ [][attempt_number' # attempt_number =>
            /\ attempt_number' = attempt_number + 1
            /\ pc = "idle" \/ (pc = "wait" /\ pc' = "before")]_vars
    /\ [][invocations' # invocations =>
            /\ invocations' = invocations + 1
            /\ attempt_number' = invocations'
            /\ attempt'.attempt_number = invocations']_vars
    /\ [][before_log' # before_log =>
            (Len(before_log') = Len(before_log) + 1
                /\ Last(before_log') = invocations + 1)]_vars
    /\ [][after_log' # after_log =>
            (Len(after_log') = Len(after_log) + 1
                /\ Last(after_log') = attempt.attempt_number)]_vars
    /\ [][stop_log' # stop_log =>
            (Len(stop_log') = Len(stop_log) + 1
                /\ Last(stop_log') = attempt.attempt_number)]_vars
    /\ [][wait_log' # wait_log =>
            (Len(wait_log') = Len(wait_log) + 1
                /\ Last(wait_log') = attempt.attempt_number)]_vars

AttemptNumberingWitness ==
    /\ pc = "GIVING_UP"
    /\ result.kind = "RetryError"
    /\ result.last_attempt.attempt_number = MaxStop
    /\ invocations = MaxStop
    /\ before_log = UpTo(MaxStop)
    /\ after_log = UpTo(MaxStop)
    /\ wait_log = UpTo(MaxStop - 1)

\* The locals of the first execution of call()
FirstFrame ==
    Frame(pc, start_time, attempt_number, attempt, delay_since_first_attempt_ms,
          sleep, result, invocations)

\* What holds of an execution of call() with the locals f that runs alone
RunsAsAlone(f) ==
    /\ f.pc # "idle" =>
          /\ f.attempt_number = IF f.pc \in {"before", "invoke"} THEN f.invocations + 1
                                                                 ELSE f.invocations
          /\ f.start_time <= now
    /\ f.attempt # NoAttempt =>
          /\ f.attempt.attempt_number = f.invocations
          /\ f.attempt.value.at = f.invocations
    /\ f.delay_since_first_attempt_ms <= now - f.start_time
    /\ f.pc = "ACCEPTED" =>
          /\ ~Rejected(f.attempt)
          /\ f.result = Attempt_get(f.attempt, cfg._wrap_exception)
    /\ f.pc = "GIVING_UP" =>
          /\ Rejected(f.attempt)
          /\ f.result = GiveUp(cfg._wrap_exception, f.attempt)
          /\ cfg.stop.kind = "stop_after_attempt" => f.invocations = cfg.stop.a
          /\ cfg.stop.kind = "stop_after_delay" =>
                f.delay_since_first_attempt_ms >= cfg.stop.a
    /\ (f.pc \in {"wait", "before", "invoke"} /\ f.attempt_number > 1) =>
          /\ cfg.stop.kind = "stop_after_attempt" => f.invocations < cfg.stop.a
          /\ cfg.stop.kind = "stop_after_delay" =>
                f.delay_since_first_attempt_ms < cfg.stop.a

\* C16: two executions of Retrying.call on one controller (or on controllers
\* sharing their strategy objects), interleaved in any way or run one after
\* the other, are independent: each starts at attempt number 1 with its
\* elapsed time measured from its own start, each step of one is the step it
\* takes when it runs alone, on its own locals, and leaves the other's
\* locals as they are, so its attempt numbers, stop decisions and outcome
\* are those of a call that runs alone.
IndependentRetrySequences ==
    /\ [](RunsAsAlone(FirstFrame) /\ RunsAsAlone(other))
    /\ [][FirstFrame' # FirstFrame =>
            /\ other' = other
            /\ <<FirstFrame', now'>> \in CallSteps(FirstFrame, now)
            /\ pc = "idle" => (attempt_number' = 1 /\ start_time' = now)]_vars
    /\ [][other' # other =>
            /\ FirstFrame' = FirstFrame
            /\ <<other', now'>> \in CallSteps(other, now)
            /\ other.pc = "idle" =>
                  (other'.attempt_number = 1 /\ other'.start_time = now)]_vars

IndependentRetrySequencesWitness ==
    /\ cfg.stop = stop_after_attempt(2)
    /\ pc = "wait"
    /\ attempt_number = 1
    /\ start_time = 0
    /\ other.start_time = MaxOpMs
    /\ other.pc = "GIVING_UP"
    /\ other.invocations = 2
    /\ other.attempt.attempt_number = 2

====
